---- MODULE Spec2Model ----
(***************************************************************************)
(* Model of the endbyte crate (src/src/lib.rs): conversion of fixed-width  *)
(* integers between host byte order and big/little endian.                 *)
(*                                                                         *)
(* Representation of values.  TLC integers are 32 bits wide, so an integer *)
(* of n bytes is held as its base-256 numeral, most significant digit      *)
(* first: 0x1234u16 is <<18, 52>>.  Digits of an unsigned value are in     *)
(* 0..255.  A signed value is held in two's complement weight form: the    *)
(* leading digit is in -128..127 and carries the sign, the other digits    *)
(* are in 0..255, so that the value is the usual weighted sum of digits.   *)
(* The byte sequence a value occupies in memory is a different object,     *)
(* produced by to_ne_bytes and consumed by from_ne_bytes, and depends on   *)
(* the build target's byte order.                                          *)
(***************************************************************************)
EXTENDS Integers, Sequences, FiniteSets, TLC

VARIABLES host, ty, input, hist, pc, op, arg, tag, res

vars == <<host, ty, input, hist, pc, op, arg, tag, res>>

(***************************************************************************)
(* Bounds                                                                  *)
(***************************************************************************)
MaxCalls == 2
NThreads == 2

Threads == 1..NThreads

(***************************************************************************)
(* Types                                                                   *)
(***************************************************************************)
EndiannessType == {"BigEndian", "LittleEndian"}

UnsignedTypes == {"u8", "u16", "u32", "u64", "u128"}
SignedTypes == {"i8", "i16", "i32", "i64", "i128"}
Types == UnsignedTypes \cup SignedTypes
SingleByteTypes == {"u8", "i8"}
MultiByteTypes == Types \ SingleByteTypes

Signed(T) == T \in SignedTypes

Bytes(T) ==
  CASE T \in {"u8", "i8"} -> 1
    [] T \in {"u16", "i16"} -> 2
    [] T \in {"u32", "i32"} -> 4
    [] T \in {"u64", "i64"} -> 8
    [] T \in {"u128", "i128"} -> 16

ToUnsigned(T) ==
  CASE T = "i16" -> "u16"
    [] T = "i32" -> "u32"
    [] T = "i64" -> "u64"
    [] T = "i128" -> "u128"

Ops == {"host_to_big_endian", "host_to_little_endian",
        "big_endian_to_host", "little_endian_to_host"}

(***************************************************************************)
(* Sequence helpers                                                        *)
(***************************************************************************)
Reverse(s) == [i \in 1..Len(s) |-> s[Len(s) + 1 - i]]

(***************************************************************************)
(* Host byte order: fixed by the build target (cfg target_endian).         *)
(***************************************************************************)
\* variant: the cfg attributes dropped, the little endian block always taken
get_local_endianness_without_cfg == "LittleEndian"

get_local_endianness ==
  IF host = "big" THEN "BigEndian" ELSE "LittleEndian"

(***************************************************************************)
(* Primitive integer operations used by the crate.                         *)
(***************************************************************************)
\* variant: only the low 64 bits are reversed, the rest is shifted out
swap_bytes_truncating(self) ==
  IF Len(self) <= 8 THEN Reverse(self)
  ELSE [k \in 1..Len(self) |->
          IF k <= 8 THEN self[Len(self) + 1 - k] ELSE 0]

\* variant: the bytes are rotated by one place instead of mirrored
swap_bytes_rotating(self) ==
  [k \in 1..Len(self) |-> self[(k % Len(self)) + 1]]

\* uN::swap_bytes: digit k of the result is digit n+1-k of self.
swap_bytes(self) == Reverse(self)

\* `self as uN` for a signed self: same bits, leading digit read unsigned.
as_unsigned(self) == [self EXCEPT ![1] = self[1] % 256]

\* uN::to_ne_bytes: the bytes of self in the target's memory order.
to_ne_bytes(self) == IF host = "big" THEN self ELSE Reverse(self)

\* variant: the leading byte is taken as an unsigned digit
from_ne_bytes_zero_extending(bytes) ==
  IF host = "big" THEN bytes ELSE Reverse(bytes)

\* iN::from_ne_bytes: the signed value whose memory bytes are `bytes`.
from_ne_bytes(bytes) ==
  LET d == IF host = "big" THEN bytes ELSE Reverse(bytes)
  IN  [d EXCEPT ![1] = IF d[1] >= 128 THEN d[1] - 256 ELSE d[1]]

(***************************************************************************)
(* impl_endianness_unsigned: the match on the endianness e that            *)
(* get_local_endianness returned.                                          *)
(***************************************************************************)
\* variant: the two arms exchanged
unsigned_host_to_big_endian_arms_exchanged(e, self) ==
  CASE e = "BigEndian" -> swap_bytes(self)
    [] e = "LittleEndian" -> self

unsigned_host_to_big_endian(e, self) ==
  CASE e = "BigEndian" -> self
    [] e = "LittleEndian" -> swap_bytes(self)

\* variant: both arms return self
unsigned_host_to_little_endian_never_swapping(e, self) ==
  CASE e = "BigEndian" -> self
    [] e = "LittleEndian" -> self

unsigned_host_to_little_endian(e, self) ==
  CASE e = "BigEndian" -> swap_bytes(self)
    [] e = "LittleEndian" -> self

\* variant: the two arms exchanged
unsigned_big_endian_to_host_arms_exchanged(e, self) ==
  CASE e = "BigEndian" -> swap_bytes(self)
    [] e = "LittleEndian" -> self

unsigned_big_endian_to_host(e, self) ==
  CASE e = "BigEndian" -> self
    [] e = "LittleEndian" -> swap_bytes(self)

\* variant: the two arms exchanged
unsigned_little_endian_to_host_arms_exchanged(e, self) ==
  CASE e = "BigEndian" -> self
    [] e = "LittleEndian" -> swap_bytes(self)

unsigned_little_endian_to_host(e, self) ==
  CASE e = "BigEndian" -> swap_bytes(self)
    [] e = "LittleEndian" -> self

(***************************************************************************)
(* impl Endianness for u8 / i8                                             *)
(***************************************************************************)
\* variant: the two nibbles of the byte exchanged
byte_big_endian_to_host_nibble_swapping(self) ==
  LET p == self[1] % 256
      q == (p % 16) * 16 + (p \div 16)
  IN  <<IF self[1] < 0 /\ q >= 128 THEN q - 256 ELSE q>>

byte_host_to_big_endian(self) == self
byte_host_to_little_endian(self) == self
byte_big_endian_to_host(self) == self
byte_little_endian_to_host(self) == self

(***************************************************************************)
(* impl_endianness_signed                                                  *)
(***************************************************************************)
signed_host_to_big_endian(e, self) ==
  from_ne_bytes(to_ne_bytes(unsigned_host_to_big_endian(e, as_unsigned(self))))

signed_host_to_little_endian(e, self) ==
  from_ne_bytes(to_ne_bytes(unsigned_host_to_little_endian(e, as_unsigned(self))))

signed_big_endian_to_host(e, self) ==
  from_ne_bytes(to_ne_bytes(unsigned_big_endian_to_host(e, as_unsigned(self))))

signed_little_endian_to_host(e, self) ==
  from_ne_bytes(to_ne_bytes(unsigned_little_endian_to_host(e, as_unsigned(self))))

(***************************************************************************)
(* Trait dispatch on the static type T, with the endianness e the body     *)
(* observed.                                                               *)
(***************************************************************************)
Dispatch(T, o, e, self) ==
  IF T \in SingleByteTypes
  THEN CASE o = "host_to_big_endian" -> byte_host_to_big_endian(self)
         [] o = "host_to_little_endian" -> byte_host_to_little_endian(self)
         [] o = "big_endian_to_host" -> byte_big_endian_to_host(self)
         [] o = "little_endian_to_host" -> byte_little_endian_to_host(self)
  ELSE IF Signed(T)
  THEN CASE o = "host_to_big_endian" -> signed_host_to_big_endian(e, self)
         [] o = "host_to_little_endian" -> signed_host_to_little_endian(e, self)
         [] o = "big_endian_to_host" -> signed_big_endian_to_host(e, self)
         [] o = "little_endian_to_host" -> signed_little_endian_to_host(e, self)
  ELSE CASE o = "host_to_big_endian" -> unsigned_host_to_big_endian(e, self)
         [] o = "host_to_little_endian" -> unsigned_host_to_little_endian(e, self)
         [] o = "big_endian_to_host" -> unsigned_big_endian_to_host(e, self)
         [] o = "little_endian_to_host" -> unsigned_little_endian_to_host(e, self)

\* The four trait methods as a caller sees them.
host_to_big_endian(T, self) ==
  Dispatch(T, "host_to_big_endian", get_local_endianness, self)
host_to_little_endian(T, self) ==
  Dispatch(T, "host_to_little_endian", get_local_endianness, self)
big_endian_to_host(T, self) ==
  Dispatch(T, "big_endian_to_host", get_local_endianness, self)
little_endian_to_host(T, self) ==
  Dispatch(T, "little_endian_to_host", get_local_endianness, self)

(***************************************************************************)
(* Input values                                                            *)
(***************************************************************************)
\* 0x00, 0x01, 0x12, 0x34, 0x7f, 0x80, 0xff
ByteSamples == {0, 1, 18, 52, 127, 128, 255}

\* 0x123456789abcdef0fedcba9876543210, the literal of the tests; the
\* narrower literals are its leading bytes.
Literal128 ==
  <<18, 52, 86, 120, 154, 188, 222, 240, 254, 220, 186, 152, 118, 84, 50, 16>>

TestVector(n) == IF n = 1 THEN <<66>> ELSE SubSeq(Literal128, 1, n)

\* bit patterns: the test literal, 0, all ones, MIN and MAX of the signed type
Bases(n) ==
  { TestVector(n),
    [i \in 1..n |-> 0],
    [i \in 1..n |-> 255],
    [i \in 1..n |-> IF i = 1 THEN 128 ELSE 0],
    [i \in 1..n |-> IF i = 1 THEN 127 ELSE 255] }

Patterns(n) ==
  IF n = 1 THEN { <<b>> : b \in 0..255 }
  ELSE { [b EXCEPT ![i] = s] : b \in Bases(n), i \in 1..n, s \in ByteSamples }
       \cup (IF n = 2 THEN { <<a, b>> : a \in ByteSamples, b \in ByteSamples }
             ELSE {})

\* the value of type T that has the bit pattern p
OfPattern(T, p) ==
  IF Signed(T)
  THEN [p EXCEPT ![1] = IF p[1] >= 128 THEN p[1] - 256 ELSE p[1]]
  ELSE p

Values(T) == { OfPattern(T, p) : p \in Patterns(Bytes(T)) }

ThreadValues(T) ==
  { OfPattern(T, TestVector(Bytes(T))),
    OfPattern(T, [i \in 1..Bytes(T) |-> IF i = 1 THEN 128 ELSE 0]) }

None == <<>>

(***************************************************************************)
(* Sequential caller: one call per step, on the input or on the result of  *)
(* the previous call.                                                      *)
(***************************************************************************)
Init ==
  /\ host \in {"big", "little"}
  /\ ty \in Types
  /\ input \in Values(ty)
  /\ hist = <<>>
  /\ pc = [t \in Threads |-> "idle"]
  /\ op = [t \in Threads |-> "none"]
  /\ arg = [t \in Threads |-> None]
  /\ tag = [t \in Threads |-> "none"]
  /\ res = [t \in Threads |-> None]

Available == {input} \cup { hist[i].res : i \in 1..Len(hist) }

Record(o, self, r) ==
  /\ Len(hist) < MaxCalls
  /\ hist' = Append(hist, [op |-> o, arg |-> self, res |-> r])
  /\ UNCHANGED <<host, ty, input, pc, op, arg, tag, res>>

HostToBigEndian ==
  \E self \in Available :
    Record("host_to_big_endian", self, host_to_big_endian(ty, self))

HostToLittleEndian ==
  \E self \in Available :
    Record("host_to_little_endian", self, host_to_little_endian(ty, self))

BigEndianToHost ==
  \E self \in Available :
    Record("big_endian_to_host", self, big_endian_to_host(ty, self))

LittleEndianToHost ==
  \E self \in Available :
    Record("little_endian_to_host", self, little_endian_to_host(ty, self))

Next ==
  \/ HostToBigEndian
  \/ HostToLittleEndian
  \/ BigEndianToHost
  \/ LittleEndianToHost

Spec == Init /\ [][Next]_vars

(***************************************************************************)
(* Concurrent callers: each thread enters a method, evaluates              *)
(* get_local_endianness() (multi-byte types only), runs the selected arm   *)
(* and returns.                                                            *)
(***************************************************************************)
InitConc ==
  /\ host \in {"big", "little"}
  /\ ty \in Types
  /\ input = OfPattern(ty, TestVector(Bytes(ty)))
  /\ hist = <<>>
  /\ pc = [t \in Threads |-> "idle"]
  /\ op = [t \in Threads |-> "none"]
  /\ arg = [t \in Threads |-> None]
  /\ tag = [t \in Threads |-> "none"]
  /\ res = [t \in Threads |-> None]

Invoke(t) ==
  /\ pc[t] = "idle"
  /\ \E o \in Ops, self \in ThreadValues(ty) :
       /\ op' = [op EXCEPT ![t] = o]
       /\ arg' = [arg EXCEPT ![t] = self]
  /\ pc' = [pc EXCEPT ![t] = "called"]
  /\ UNCHANGED <<host, ty, input, hist, tag, res>>

Match(t) ==
  /\ pc[t] = "called"
  /\ ty \in MultiByteTypes
  /\ tag' = [tag EXCEPT ![t] = get_local_endianness]
  /\ pc' = [pc EXCEPT ![t] = "matched"]
  /\ UNCHANGED <<host, ty, input, hist, op, arg, res>>

\* variant: the result goes through one buffer shared by all threads
Return_through_shared_buffer(t) ==
  /\ \/ pc[t] = "matched"
     \/ pc[t] = "called" /\ ty \in SingleByteTypes
  /\ res' = [u \in Threads |-> Dispatch(ty, op[t], tag[t], arg[t])]
  /\ pc' = [pc EXCEPT ![t] = "returned"]
  /\ UNCHANGED <<host, ty, input, hist, op, arg, tag>>

Return(t) ==
  /\ \/ pc[t] = "matched"
     \/ pc[t] = "called" /\ ty \in SingleByteTypes
  /\ res' = [res EXCEPT ![t] = Dispatch(ty, op[t], tag[t], arg[t])]
  /\ pc' = [pc EXCEPT ![t] = "returned"]
  /\ UNCHANGED <<host, ty, input, hist, op, arg, tag>>

Drop(t) ==
  /\ pc[t] = "returned"
  /\ pc' = [pc EXCEPT ![t] = "idle"]
  /\ op' = [op EXCEPT ![t] = "none"]
  /\ arg' = [arg EXCEPT ![t] = None]
  /\ tag' = [tag EXCEPT ![t] = "none"]
  /\ res' = [res EXCEPT ![t] = None]
  /\ UNCHANGED <<host, ty, input, hist>>

NextConc ==
  \/ \E t \in Threads : Invoke(t)
  \/ \E t \in Threads : Match(t)
  \/ \E t \in Threads : Return(t)
  \/ \E t \in Threads : Drop(t)

SpecConc == InitConc /\ [][NextConc]_vars

(***************************************************************************)
(* Vocabulary of the properties                                            *)
(***************************************************************************)
Calls == 1..Len(hist)

\* call d was applied to the result of call c
Chained(c, d) == hist[d].arg = hist[c].res

\* the W-bit two's complement bit pattern of a value, as n bytes, most
\* significant first (v mod 2^W)
BitPattern(v) == [k \in 1..Len(v) |-> IF k = 1 THEN v[k] % 256 ELSE v[k]]

\* byte of weight 256^w in the bit pattern of v
ByteOfWeight(v, w) == BitPattern(v)[Len(v) - w]

BigEndianEncoding(v) == [k \in 1..Len(v) |-> ByteOfWeight(v, Len(v) - k)]
LittleEndianEncoding(v) == [k \in 1..Len(v) |-> ByteOfWeight(v, k - 1)]

\* the bytes a value occupies in the memory of the build target
NativeBytes(v) ==
  IF host = "big" THEN BigEndianEncoding(v) ELSE LittleEndianEncoding(v)

\* T::swap_bytes as the standard library defines it for every integer type
ByteReversal(T, v) == OfPattern(T, Reverse(BitPattern(v)))

\* numeric value of a 16-bit value
Num16(v) == v[1] * 256 + v[2]

InRange(T, r) ==
  /\ Len(r) = Bytes(T)
  /\ r[1] \in -128..127
  /\ \A k \in 2..Len(r) : r[k] \in 0..255

IsNegative(v) == v[1] < 0

(***************************************************************************)
(* C1: round trip through big endian.  Whenever host_to_big_endian was     *)
(* applied to v and big_endian_to_host to its result, the final result is  *)
(* v, for every type, value and host byte order.                           *)
(***************************************************************************)
C1_RoundTripBig ==
  \A c \in Calls, d \in Calls :
    (/\ hist[c].op = "host_to_big_endian"
     /\ hist[d].op = "big_endian_to_host"
     /\ Chained(c, d))
    => hist[d].res = hist[c].arg

C1_Witness ==
  /\ ty = "i128"
  /\ host = "little"
  /\ Len(hist) = 2
  /\ hist[1].op = "host_to_big_endian"
  /\ hist[2].op = "big_endian_to_host"
  /\ hist[1].arg = input
  /\ IsNegative(input)
  /\ hist[1].res # input
  /\ Chained(1, 2)
  /\ hist[2].res = input

(***************************************************************************)
(* C2: round trip through little endian.  Whenever host_to_little_endian   *)
(* was applied to v and little_endian_to_host to its result, the final     *)
(* result is v.                                                            *)
(***************************************************************************)
C2_RoundTripLittle ==
  \A c \in Calls, d \in Calls :
    (/\ hist[c].op = "host_to_little_endian"
     /\ hist[d].op = "little_endian_to_host"
     /\ Chained(c, d))
    => hist[d].res = hist[c].arg

C2_Witness ==
  /\ ty = "i64"
  /\ host = "big"
  /\ Len(hist) = 2
  /\ hist[1].op = "host_to_little_endian"
  /\ hist[2].op = "little_endian_to_host"
  /\ hist[1].arg = input
  /\ hist[1].res # input
  /\ Chained(1, 2)
  /\ hist[2].res = input

(***************************************************************************)
(* C3: wire layout.  For a multi-byte type, the bytes that the result of   *)
(* host_to_big_endian(v) occupies in host memory are the big-endian        *)
(* encoding of v (most significant byte first), and those of               *)
(* host_to_little_endian(v) are its little-endian encoding.                *)
(***************************************************************************)
C3_WireLayout ==
  ty \in MultiByteTypes =>
    \A c \in Calls :
      /\ hist[c].op = "host_to_big_endian"
           => NativeBytes(hist[c].res) = BigEndianEncoding(hist[c].arg)
      /\ hist[c].op = "host_to_little_endian"
           => NativeBytes(hist[c].res) = LittleEndianEncoding(hist[c].arg)

C3_Witness ==
  /\ ty = "u32"
  /\ host = "big"
  /\ input = <<18, 52, 86, 120>>
  /\ Len(hist) = 2
  /\ hist[1] = [op |-> "host_to_big_endian", arg |-> input,
                res |-> <<18, 52, 86, 120>>]
  /\ hist[2] = [op |-> "host_to_little_endian", arg |-> input,
                res |-> <<120, 86, 52, 18>>]

(***************************************************************************)
(* C4: host-conditional formula.  For a multi-byte type, on a little       *)
(* endian host host_to_big_endian(v) is the byte reversal of v and         *)
(* host_to_little_endian(v) is v; on a big endian host the other way       *)
(* round.  On a little endian host 0x1234u16 gives 0x3412 and 0x1234.      *)
(***************************************************************************)
C4_HostConditional ==
  ty \in MultiByteTypes =>
    \A c \in Calls :
      /\ (hist[c].op = "host_to_big_endian" /\ host = "little")
           => hist[c].res = ByteReversal(ty, hist[c].arg)
      /\ (hist[c].op = "host_to_little_endian" /\ host = "little")
           => hist[c].res = hist[c].arg
      /\ (hist[c].op = "host_to_big_endian" /\ host = "big")
           => hist[c].res = hist[c].arg
      /\ (hist[c].op = "host_to_little_endian" /\ host = "big")
           => hist[c].res = ByteReversal(ty, hist[c].arg)
      /\ (ty = "u16" /\ host = "little" /\ Num16(hist[c].arg) = 4660)
           => /\ hist[c].op = "host_to_big_endian"
                   => Num16(hist[c].res) = 13330
              /\ hist[c].op = "host_to_little_endian"
                   => Num16(hist[c].res) = 4660

C4_Witness ==
  /\ ty = "u16"
  /\ host = "little"
  /\ Num16(input) = 4660
  /\ Len(hist) = 2
  /\ hist[1].op = "host_to_big_endian"
  /\ hist[1].arg = input
  /\ Num16(hist[1].res) = 13330
  /\ hist[2].op = "host_to_little_endian"
  /\ hist[2].arg = input
  /\ Num16(hist[2].res) = 4660

(***************************************************************************)
(* C5: cross-consistency.  Applied to the same value, the result of        *)
(* host_to_big_endian is the byte reversal of the result of                *)
(* host_to_little_endian.                                                  *)
(***************************************************************************)
C5_CrossConsistency ==
  \A c \in Calls, d \in Calls :
    (/\ hist[c].op = "host_to_big_endian"
     /\ hist[d].op = "host_to_little_endian"
     /\ hist[c].arg = hist[d].arg)
    => hist[c].res = ByteReversal(ty, hist[d].res)

C5_Witness ==
  /\ ty = "u128"
  /\ host = "big"
  /\ input = Literal128
  /\ Len(hist) = 2
  /\ hist[1].op = "host_to_big_endian"
  /\ hist[2].op = "host_to_little_endian"
  /\ hist[1].arg = input
  /\ hist[2].arg = input
  /\ hist[2].res # hist[1].res

(***************************************************************************)
(* C6: operation-pair equality.  Applied to the same value,                *)
(* host_to_big_endian and big_endian_to_host return the same result, and   *)
(* so do host_to_little_endian and little_endian_to_host.                  *)
(***************************************************************************)
C6_PairEquality ==
  \A c \in Calls, d \in Calls :
    (/\ hist[c].arg = hist[d].arg
     /\ \/ /\ hist[c].op = "host_to_big_endian"
           /\ hist[d].op = "big_endian_to_host"
        \/ /\ hist[c].op = "host_to_little_endian"
           /\ hist[d].op = "little_endian_to_host")
    => hist[c].res = hist[d].res

C6_Witness ==
  /\ ty = "i32"
  /\ host = "little"
  /\ Len(hist) = 2
  /\ IsNegative(input)
  /\ hist[1].op = "host_to_big_endian"
  /\ hist[2].op = "big_endian_to_host"
  /\ hist[1].arg = input
  /\ hist[2].arg = input
  /\ hist[1].res # input
  /\ hist[2].res = hist[1].res

(***************************************************************************)
(* C7: single-byte fixed point.  For u8 and i8 every one of the four       *)
(* operations returns its argument.                                        *)
(***************************************************************************)
C7_SingleByteIdentity ==
  ty \in SingleByteTypes =>
    \A c \in Calls : hist[c].res = hist[c].arg

C7_Witness ==
  /\ ty = "i8"
  /\ input = <<-128>>
  /\ Len(hist) = 2
  /\ hist[1].op = "host_to_big_endian"
  /\ hist[2].op = "little_endian_to_host"
  /\ hist[1].res = input
  /\ hist[2].res = input

(***************************************************************************)
(* C8: every operation is its own inverse.  Applying the same operation    *)
(* to its own result gives the original value back; decoding then          *)
(* re-encoding (big_endian_to_host, then host_to_big_endian) does too.     *)
(***************************************************************************)
C8_Involution ==
  \A c \in Calls, d \in Calls :
    (/\ Chained(c, d)
     /\ \/ hist[c].op = hist[d].op
        \/ /\ hist[c].op = "big_endian_to_host"
           /\ hist[d].op = "host_to_big_endian")
    => hist[d].res = hist[c].arg

C8_Witness ==
  /\ ty = "u64"
  /\ host = "little"
  /\ Len(hist) = 2
  /\ hist[1].op = "big_endian_to_host"
  /\ hist[2].op = "big_endian_to_host"
  /\ hist[1].arg = input
  /\ hist[1].res # input
  /\ Chained(1, 2)
  /\ hist[2].res = input

(***************************************************************************)
(* C10: signed conversion is pure bit reinterpretation.  For a signed      *)
(* multi-byte type every result lies in the range of the type and its bit  *)
(* pattern is the unsigned operation applied to the argument's bit         *)
(* pattern.                                                                *)
(***************************************************************************)
C10_SignedReinterpretation ==
  (ty \in SignedTypes /\ ty \in MultiByteTypes) =>
    \A c \in Calls :
      /\ InRange(ty, hist[c].res)
      /\ ty = "i16" => Num16(hist[c].res) \in -32768..32767
      /\ BitPattern(hist[c].res) =
           Dispatch(ToUnsigned(ty), hist[c].op, get_local_endianness,
                    BitPattern(hist[c].arg))

C10_Witness ==
  /\ ty = "i16"
  /\ host = "little"
  /\ input = <<-128, 0>>
  /\ Len(hist) = 2
  /\ hist[1] = [op |-> "host_to_big_endian", arg |-> input,
                res |-> <<0, 128>>]
  /\ hist[2] = [op |-> "big_endian_to_host", arg |-> <<0, 128>>,
                res |-> <<-128, 0>>]

(***************************************************************************)
(* C9: interleaving independence.  With any number of threads calling      *)
(* concurrently, the host byte order never changes, a step of one thread   *)
(* leaves every other thread's argument, observed byte order and result    *)
(* untouched, and every call returns what the same call returns when run   *)
(* alone on the same argument.                                             *)
(***************************************************************************)
RunAlone(T, o, self) == Dispatch(T, o, get_local_endianness, self)

Untouched(t) ==
  /\ op'[t] = op[t]
  /\ arg'[t] = arg[t]
  /\ tag'[t] = tag[t]
  /\ res'[t] = res[t]

C9_InterleavingIndependence ==
  /\ [][host' = host /\ ty' = ty]_vars
  /\ [][\A t \in Threads : pc'[t] = pc[t] => Untouched(t)]_vars
  /\ [](\A t \in Threads :
          pc[t] = "returned" => res[t] = RunAlone(ty, op[t], arg[t]))

C9_Witness ==
  /\ ty = "i32"
  /\ host = "little"
  /\ pc[1] = "returned"
  /\ pc[2] = "matched"
  /\ op[1] = "host_to_big_endian"
  /\ op[2] = "host_to_little_endian"
  /\ arg[1] # arg[2]
  /\ res[1] # arg[1]

====
